---- MODULE Spec2Model ----
(***************************************************************************)
(* Model of src/main.py: the pre-response hook before_llm_cb of the voice  *)
(* agent, the snapshot acquirer get_latest_image and the track finder      *)
(* get_video_track, run as asyncio tasks on one event loop over a shared   *)
(* chat context.                                                           *)
(*                                                                         *)
(* Texts are sequences of tokens; a token is a word group or a whitespace  *)
(* character.  A value that may be Python's None is a record with an       *)
(* isNone flag.                                                            *)
(***************************************************************************)
EXTENDS Integers, Sequences, FiniteSets, TLC

\* ------------------------------------------------------------------ bounds
MaxInvocations == 2
MaxRoomSize == 2
MaxScanRoomSize == 5

Invocations == 1..MaxInvocations

\* ------------------------------------------------------------------- texts
Whitespace == {" ", "\n"}

NoneText == [isNone |-> TRUE, chars |-> <<>>]
TextOf(s) == [isNone |-> FALSE, chars |-> s]

RECURSIVE lstrip(_)
lstrip(s) ==
    IF s # <<>> /\ Head(s) \in Whitespace THEN lstrip(Tail(s)) ELSE s

RECURSIVE rstrip(_)
rstrip(s) ==
    IF s # <<>> /\ s[Len(s)] \in Whitespace
    THEN rstrip(SubSeq(s, 1, Len(s) - 1))
    ELSE s

\* a variant that drops the leading whitespace only
strip_LeftOnly(s) == lstrip(s)

\* str.strip(): drops the leading and the trailing whitespace
strip(s) == rstrip(lstrip(s))

\* the utterances the framework's speech-to-text commits as user messages
Utterances == {<<"tell me about your day">>}

\* the texts the ideation call's response can carry (response.text may be
\* None) and those the selection call's response can carry
IdeationTexts == {NoneText, TextOf(<<"1. joke A", "\n", "2. joke B">>)}

SelectionTexts ==
    {NoneText, TextOf(<<" ">>), TextOf(<<" ", "joke B", "\n">>), TextOf(<<"joke B">>)}

\* generate_content raised instead of returning a response
GenerationFailure == [isNone |-> TRUE, chars |-> <<"transport error">>]

\* what a call of gemini_client.models.generate_content can come back with
GenerationOutcomes(texts) == texts \cup {GenerationFailure}

Frames == {"frame1"}
NoFrame == "None"

\* ---------------------------------------------------------------- messages
ChatMessage(role, kind, text, image, by) ==
    [role |-> role, kind |-> kind, text |-> text, image |-> image, by |-> by]

NoMessage == ChatMessage("none", "none", <<>>, NoFrame, 0)

SeedMessage == ChatMessage("system", "text", <<"seed">>, NoFrame, 0)

UserUtterance(u) == ChatMessage("user", "text", u, NoFrame, 0)

\* llm.ChatMessage(role="user", content=[llm.ChatImage(image=latest_image)])
ImageMessage(i, frame) == ChatMessage("user", "image", <<>>, frame, i)

HintPrefix == <<"Use this joke as inspiration for your response: ">>

\* a variant that appends the hint as a system message, as the comment of
\* line 230 words it
HintMessage_System(i, joke) ==
    ChatMessage("system", "hint", HintPrefix \o joke, NoFrame, i)

\* llm.ChatMessage(role="user", content=f"Use this joke ...: {selected_joke}")
HintMessage(i, joke) == ChatMessage("user", "hint", HintPrefix \o joke, NoFrame, i)

\* -------------------------------------------------------------------- room
TrackKinds == {"none", "audio", "video"}

RECURSIVE SeqsUpTo(_, _)
SeqsUpTo(S, n) ==
    IF n = 0 THEN {<<>>}
    ELSE LET shorter == SeqsUpTo(S, n - 1)
         IN  shorter \cup {Append(s, x) : s \in shorter, x \in S}

\* room.remote_participants: the participants in insertion order, each with
\* its track publications in insertion order, each publication by the kind
\* of its track ("none": no track subscribed).  RoomsUpTo(n): the rooms
\* whose participants and publications number at most n together.
RECURSIVE RoomsUpTo(_)
RoomsUpTo(n) ==
    IF n = 0 THEN {<<>>}
    ELSE {<<>>} \cup
         UNION {{<<p>> \o r : r \in RoomsUpTo(n - 1 - Len(p))} :
                    p \in SeqsUpTo(TrackKinds, n - 1)}

Rooms == RoomsUpTo(MaxRoomSize)

NoVideoTrack == <<0, 0>>

\* a variant that takes the first publication with a track of any kind
RECURSIVE FirstVideoPublication_AnyTrack(_, _)
FirstVideoPublication_AnyTrack(pubs, t) ==
    IF t > Len(pubs) THEN 0
    ELSE IF pubs[t] # "none" THEN t
    ELSE FirstVideoPublication_AnyTrack(pubs, t + 1)

\* for track_id, publication in participant.track_publications.items():
\*     if publication.track and isinstance(publication.track, rtc.RemoteVideoTrack)
RECURSIVE FirstVideoPublication(_, _)
FirstVideoPublication(pubs, t) ==
    IF t > Len(pubs) THEN 0
    ELSE IF pubs[t] # "none" /\ pubs[t] = "video" THEN t
    ELSE FirstVideoPublication(pubs, t + 1)

RECURSIVE ScanParticipants(_, _)
ScanParticipants(r, p) ==
    IF p > Len(r) THEN NoVideoTrack
    ELSE LET t == FirstVideoPublication(r[p], 1)
         IN  IF t # 0 THEN <<p, t>> ELSE ScanParticipants(r, p + 1)

\* the track found, as <<participant, publication>>, or NoVideoTrack where
\* the code raises ValueError
get_video_track(r) == ScanParticipants(r, 1)

\* ------------------------------------------------------------------- state
VARIABLES
    room,                \* ctx.room: the remote participants and their tracks
    ctx,                 \* chat_ctx.messages
    running,             \* the task the event loop is executing (0: none)
    pc,                  \* each invocation's position in before_llm_cb
    video_track,         \* local of get_latest_image
    video_stream,        \* get_latest_image's stream: "None", "open", "closed"
    pending,             \* how get_latest_image leaves its finally block
    latest_image,        \* local of before_llm_cb
    latest_user_message, \* local of before_llm_cb
    association_prompt,  \* local of before_llm_cb
    image_bytes,         \* local of before_llm_cb
    joke_suggestions,    \* local of before_llm_cb
    humor_judge_prompt,  \* local of before_llm_cb
    humor_judge_response, \* local of before_llm_cb: the response's text
    selected_joke,       \* local of before_llm_cb
    outcome,             \* how the invocation ended, as its caller sees it
    failure,             \* the exception that ended the invocation
    snap,                \* how snapshot acquisition ended
    uttIdx,              \* position of the utterance the turn started with
    concurrent,          \* the invocations in flight when this one started
    trace,               \* the steps the invocation has taken, in order
    ideation_seen        \* the ideation text a stubbed selection call was given

vars == <<room, ctx, running, pc, video_track, video_stream, pending, latest_image,
          latest_user_message, association_prompt, image_bytes, joke_suggestions,
          humor_judge_prompt, humor_judge_response, selected_joke,
          outcome, failure, snap, uttIdx, concurrent, trace, ideation_seen>>

locals == <<latest_image, latest_user_message, association_prompt, image_bytes,
            joke_suggestions, humor_judge_prompt, humor_judge_response,
            selected_joke>>

\* no stubbed selection call was made
NotSeen == [isNone |-> TRUE, chars |-> <<"not seen">>]

\* no exit of the try block of get_latest_image is pending
NoExit == <<"none", NoFrame>>

InFlight == {j \in Invocations : pc[j] \notin {"idle", "done"}}

\* the agent before its first turn
HookInit ==
    /\ ctx = <<SeedMessage>>
    /\ running = 0
    /\ pc = [i \in Invocations |-> "idle"]
    /\ video_stream = [i \in Invocations |-> "None"]
    /\ video_track = [i \in Invocations |-> NoVideoTrack]
    /\ pending = [i \in Invocations |-> NoExit]
    /\ latest_image = [i \in Invocations |-> NoFrame]
    /\ latest_user_message = [i \in Invocations |-> NoMessage]
    /\ association_prompt = [i \in Invocations |-> <<>>]
    /\ image_bytes = [i \in Invocations |-> <<>>]
    /\ joke_suggestions = [i \in Invocations |-> NoneText]
    /\ humor_judge_prompt = [i \in Invocations |-> <<>>]
    /\ humor_judge_response = [i \in Invocations |-> NoneText]
    /\ selected_joke = [i \in Invocations |-> <<>>]
    /\ outcome = [i \in Invocations |-> "none"]
    /\ failure = [i \in Invocations |-> "none"]
    /\ snap = [i \in Invocations |-> "none"]
    /\ uttIdx = [i \in Invocations |-> 0]
    /\ concurrent = [i \in Invocations |-> {}]
    /\ trace = [i \in Invocations |-> <<>>]
    /\ ideation_seen = [i \in Invocations |-> NotSeen]

Init == room \in Rooms /\ HookInit

\* -------------------------------------------------------- the event loop
\* before_llm_cb is a coroutine on a single-threaded event loop: a task runs
\* from one await that suspends to the next without any other task running.
\* A task may take a step when it holds the loop or the loop is free.
\* a variant in which the steps of the hook run on threads of their own
EventLoopGrants_Threads(i) == TRUE

EventLoopGrants(i) == running \in {0, i}

\* variants of the append: insert at the head, append twice
AppendMessage_Front(c, m) == <<m>> \o c

AppendMessage_Twice(c, m) == Append(Append(c, m), m)

\* chat_ctx.messages.append(m)
AppendMessage(c, m) == Append(c, m)

\* a variant of the handler that catches the stream's errors only
ExceptException_StreamOnly(e) == e = "StreamError"

\* `except Exception` of get_latest_image: asyncio.CancelledError derives
\* from BaseException and is not caught
ExceptException(e) == e # "CancelledError"

\* a variant that closes the stream in the except handler, not in finally
FinallyClose_ExceptOnly(vs, how) ==
    IF vs # "None" /\ how = "StreamError" THEN "closed" ELSE vs

\* the finally block of get_latest_image: `if video_stream: aclose()`,
\* whatever way (how) the try block was left
FinallyClose(vs, how) == IF vs # "None" THEN "closed" ELSE vs

\* a variant whose guard never lets the image message through
ImageGuard_Never(img) == FALSE

\* `if latest_image:` a frame object is truthy, None is not
ImageGuard(img) == img # NoFrame

\* encode(latest_image, EncodeOptions(format="JPEG", ...)): the JPEG bytes of
\* the resized frame
encode(frame) == <<"jpeg", frame>>

\* a variant that lists the user messages latest first, so that the [-1]
\* of the lookup takes the earliest
UserMessages_Reversed(c) ==
    LET u == SelectSeq(c, LAMBDA m : m.role = "user")
    IN  [k \in 1..Len(u) |-> u[Len(u) + 1 - k]]

\* [m for m in chat_ctx.messages if m.role == "user"]
UserMessages(c) == SelectSeq(c, LAMBDA m : m.role = "user")

\* the frame of the invocation is released when the coroutine ends
ClearLocals(i) ==
    /\ latest_image' = [latest_image EXCEPT ![i] = NoFrame]
    /\ latest_user_message' = [latest_user_message EXCEPT ![i] = NoMessage]
    /\ association_prompt' = [association_prompt EXCEPT ![i] = <<>>]
    /\ image_bytes' = [image_bytes EXCEPT ![i] = <<>>]
    /\ joke_suggestions' = [joke_suggestions EXCEPT ![i] = NoneText]
    /\ humor_judge_prompt' = [humor_judge_prompt EXCEPT ![i] = <<>>]
    /\ humor_judge_response' = [humor_judge_response EXCEPT ![i] = NoneText]
    /\ selected_joke' = [selected_joke EXCEPT ![i] = <<>>]

\* an exception leaves before_llm_cb
Raise(i, e) ==
    /\ pc' = [pc EXCEPT ![i] = "done"]
    /\ outcome' = [outcome EXCEPT ![i] = IF e = "CancelledError" THEN "cancelled" ELSE "raised"]
    /\ failure' = [failure EXCEPT ![i] = e]
    /\ running' = 0
    /\ ClearLocals(i)

\* ---------------------------------------------------------- the framework
NextInvocation(i) ==
    /\ pc[i] = "idle"
    /\ \A j \in Invocations : j < i => pc[j] # "idle"

\* a user turn: the framework appends the utterance, then calls the hook
UserTurn(i, u) ==
    /\ running = 0
    /\ NextInvocation(i)
    /\ ctx' = Append(ctx, UserUtterance(u))
    /\ uttIdx' = [uttIdx EXCEPT ![i] = Len(ctx) + 1]
    /\ concurrent' = [concurrent EXCEPT ![i] = InFlight]
    /\ pc' = [pc EXCEPT ![i] = "get_video_track"]
    /\ running' = i
    /\ UNCHANGED <<room, ideation_seen, video_track, video_stream, pending, locals, outcome,
                   failure, snap, trace>>

\* the hook is called on the context as it stands, with no new utterance
InvokeHook(i) ==
    /\ running = 0
    /\ NextInvocation(i)
    /\ concurrent' = [concurrent EXCEPT ![i] = InFlight]
    /\ pc' = [pc EXCEPT ![i] = "get_video_track"]
    /\ running' = i
    /\ UNCHANGED <<room, ideation_seen, ctx, video_track, video_stream, pending, locals,
                   outcome, failure, snap, uttIdx, trace>>

\* ------------------------------------------------------- get_latest_image
\* get_latest_image is over: its finally block has run.  `how` is the way
\* the try block was left: "frame" (return event.frame), "exhausted" (the
\* async for ended with no event, None is returned implicitly) or the
\* exception raised.  A caught exception returns None; CancelledError
\* goes on through before_llm_cb to its caller.
AfterSnapshot(i, how, frame) ==
    /\ snap' = [snap EXCEPT ![i] = how]
    /\ pending' = [pending EXCEPT ![i] = NoExit]
    /\ IF how \notin {"frame", "exhausted"} /\ ~ExceptException(how)
       THEN Raise(i, how) /\ UNCHANGED trace
       ELSE /\ latest_image' = [latest_image EXCEPT ![i] = frame]
            /\ pc' = [pc EXCEPT ![i] = "lookup"]
            /\ running' = i
            /\ trace' = [trace EXCEPT ![i] = Append(@, "snapshot")]
            /\ UNCHANGED <<latest_user_message, association_prompt, image_bytes,
                           joke_suggestions, humor_judge_prompt,
                           humor_judge_response, selected_joke, outcome, failure>>

\* video_track = await get_video_track(room)
GetVideoTrack(i) ==
    /\ pc[i] = "get_video_track"
    /\ EventLoopGrants(i)
    /\ IF get_video_track(room) = NoVideoTrack
       THEN /\ AfterSnapshot(i, "ValueError", NoFrame)
            /\ video_stream' = [video_stream EXCEPT ![i] = FinallyClose(@, "ValueError")]
            /\ UNCHANGED video_track
       ELSE /\ video_track' = [video_track EXCEPT ![i] = get_video_track(room)]
            /\ pc' = [pc EXCEPT ![i] = "open_stream"]
            /\ running' = i
            /\ UNCHANGED <<video_stream, pending, locals, outcome, failure, snap,
                           trace>>
    /\ UNCHANGED <<room, ideation_seen, ctx, uttIdx, concurrent>>

\* video_stream = rtc.VideoStream(video_track), then the async for suspends
\* on the first event; the constructor may raise
OpenStream(i) ==
    /\ pc[i] = "open_stream"
    /\ EventLoopGrants(i)
    /\ \E opened \in BOOLEAN :
        IF opened
        THEN /\ video_stream' = [video_stream EXCEPT ![i] = "open"]
             /\ pc' = [pc EXCEPT ![i] = "await_frame"]
             /\ running' = 0
             /\ UNCHANGED <<pending, locals, outcome, failure, snap, trace>>
        ELSE /\ AfterSnapshot(i, "StreamError", NoFrame)
             /\ video_stream' = [video_stream EXCEPT ![i] = FinallyClose(@, "StreamError")]
    /\ UNCHANGED <<room, ideation_seen, ctx, video_track, uttIdx, concurrent>>

\* the try block is left while the stream is open: the finally block calls
\* aclose(), which releases the stream handle and then awaits the stream's
\* reader task
LeaveTry(i, how, frame) ==
    /\ pc[i] = "await_frame"
    /\ EventLoopGrants(i)
    /\ video_stream' = [video_stream EXCEPT ![i] = FinallyClose(@, how)]
    /\ IF FinallyClose(video_stream[i], how) = "closed"
       THEN /\ pc' = [pc EXCEPT ![i] = "aclose"]
            /\ pending' = [pending EXCEPT ![i] = <<how, frame>>]
            /\ running' = 0
            /\ UNCHANGED <<locals, outcome, failure, snap, trace>>
       ELSE AfterSnapshot(i, how, frame)
    /\ UNCHANGED <<room, ideation_seen, ctx, video_track, uttIdx, concurrent>>

\* async for event in video_stream: return event.frame
FrameEvent(i, f) ==
    /\ video_stream[i] = "open"
    /\ LeaveTry(i, "frame", f)

\* the stream raises while the hook waits for the first event
StreamError(i) ==
    /\ video_stream[i] = "open"
    /\ LeaveTry(i, "StreamError", NoFrame)

\* the stream ends before it delivered an event
StreamEnd(i) ==
    /\ video_stream[i] = "open"
    /\ LeaveTry(i, "exhausted", NoFrame)

\* the task is cancelled while it waits for the first event
CancelWaiting(i) ==
    /\ video_stream[i] = "open"
    /\ LeaveTry(i, "CancelledError", NoFrame)

\* await video_stream.aclose() returns
AcloseDone(i) ==
    /\ pc[i] = "aclose"
    /\ EventLoopGrants(i)
    /\ AfterSnapshot(i, pending[i][1], pending[i][2])
    /\ UNCHANGED <<room, ideation_seen, ctx, video_track, video_stream, uttIdx, concurrent>>

\* the task is cancelled while it awaits aclose(): CancelledError leaves the
\* finally block in place of the pending return
CancelClosing(i) ==
    /\ pc[i] = "aclose"
    /\ EventLoopGrants(i)
    /\ AfterSnapshot(i, "CancelledError", NoFrame)
    /\ UNCHANGED <<room, ideation_seen, ctx, video_track, video_stream, uttIdx, concurrent>>

\* ---------------------------------------------------------- before_llm_cb
acquisition == <<room, video_track, video_stream, pending, snap>>

\* latest_user_message = [m for m in chat_ctx.messages if m.role == "user"][-1]
Lookup(i) ==
    /\ pc[i] = "lookup"
    /\ EventLoopGrants(i)
    /\ LET users == UserMessages(ctx)
       IN  IF users = <<>>
           THEN Raise(i, "IndexError")
           ELSE /\ latest_user_message' =
                       [latest_user_message EXCEPT ![i] = users[Len(users)]]
                /\ pc' = [pc EXCEPT ![i] = "append_image"]
                /\ running' = i
                /\ UNCHANGED <<latest_image, association_prompt, image_bytes,
                               joke_suggestions, humor_judge_prompt,
                               humor_judge_response, selected_joke, outcome,
                               failure>>
    /\ UNCHANGED <<acquisition, ideation_seen, ctx, uttIdx, concurrent, trace>>

\* str() of a message's content inside an f-string: the text, or the repr
\* of the list holding the image
ContentStr(m) ==
    IF m.kind = "image" THEN <<"[ChatImage(image=" \o m.image \o ")]">> ELSE m.text

\* a generation response's text inside an f-string: None prints as "None"
FormatText(t) == IF t.isNone THEN <<"None">> ELSE t.chars

\* a variant that takes the other branch of the conditional of line 107
AssociationPrompt_NoText(m) ==
    <<"Based on the user's message ... User message: ", "No text content">>

\* association_prompt = f"""... User message: {latest_user_message.content} ..."""
\* (hasattr(content, '__str__') holds of every object)
AssociationPrompt(m) == <<"Based on the user's message ... User message: ">> \o ContentStr(m)

\* a variant whose template leaves the suggestions out
HumorJudgePrompt_NoSuggestions(suggestions) ==
    <<"You are a humor judge. ... Joke suggestions: ">>

\* humor_judge_prompt = f"""... Joke suggestions: {joke_suggestions} """
HumorJudgePrompt(suggestions) ==
    <<"You are a humor judge. ... Joke suggestions: ">> \o FormatText(suggestions)

\* if latest_image: chat_ctx.messages.append(ChatMessage(role="user", ...))
\* and the ideation prompt is built from latest_user_message
AppendImage(i) ==
    /\ pc[i] = "append_image"
    /\ EventLoopGrants(i)
    /\ ctx' = IF ImageGuard(latest_image[i])
              THEN AppendMessage(ctx, ImageMessage(i, latest_image[i]))
              ELSE ctx
    /\ association_prompt' =
           [association_prompt EXCEPT ![i] = AssociationPrompt(latest_user_message[i])]
    /\ pc' = [pc EXCEPT ![i] = "encode"]
    /\ running' = i
    /\ UNCHANGED <<acquisition, ideation_seen, latest_image, latest_user_message, image_bytes,
                   joke_suggestions, humor_judge_prompt, humor_judge_response,
                   selected_joke, outcome, failure, uttIdx, concurrent, trace>>

\* a variant whose encoder accepts None and yields the bytes of no frame
Encode_Lenient(i) ==
    /\ pc[i] = "encode"
    /\ EventLoopGrants(i)
    /\ image_bytes' = [image_bytes EXCEPT ![i] = encode(latest_image[i])]
    /\ pc' = [pc EXCEPT ![i] = "ideate"]
    /\ running' = i
    /\ UNCHANGED <<latest_image, latest_user_message, association_prompt,
                   joke_suggestions, humor_judge_prompt,
                   humor_judge_response, selected_joke, outcome, failure>>
    /\ UNCHANGED <<acquisition, ideation_seen, ctx, uttIdx, concurrent, trace>>

\* image_bytes = encode(latest_image, ...): with latest_image = None the
\* encoder dereferences None and raises
Encode(i) ==
    /\ pc[i] = "encode"
    /\ EventLoopGrants(i)
    /\ IF latest_image[i] = NoFrame
       THEN Raise(i, "EncodeError")
       ELSE /\ image_bytes' = [image_bytes EXCEPT ![i] = encode(latest_image[i])]
            /\ pc' = [pc EXCEPT ![i] = "ideate"]
            /\ running' = i
            /\ UNCHANGED <<latest_image, latest_user_message, association_prompt,
                           joke_suggestions, humor_judge_prompt,
                           humor_judge_response, selected_joke, outcome, failure>>
    /\ UNCHANGED <<acquisition, ideation_seen, ctx, uttIdx, concurrent, trace>>

\* association_response = gemini_client.models.generate_content(...)
\* joke_suggestions = association_response.text
Ideate(i) ==
    /\ pc[i] = "ideate"
    /\ EventLoopGrants(i)
    /\ \E response \in GenerationOutcomes(IdeationTexts) :
        IF response = GenerationFailure
        THEN Raise(i, "IdeationError")
        ELSE /\ joke_suggestions' = [joke_suggestions EXCEPT ![i] = response]
             /\ pc' = [pc EXCEPT ![i] = "select"]
             /\ running' = i
             /\ UNCHANGED <<latest_image, latest_user_message, association_prompt,
                            image_bytes, humor_judge_prompt, humor_judge_response,
                            selected_joke, outcome, failure>>
    /\ trace' = [trace EXCEPT ![i] = Append(@, "ideation")]
    /\ UNCHANGED <<acquisition, ideation_seen, ctx, uttIdx, concurrent>>

\* humor_judge_prompt is built from joke_suggestions;
\* humor_judge_response = gemini_client.models.generate_content(...)
\* selected_joke = humor_judge_response.text.strip(): a None text has no
\* strip and raises AttributeError
Select(i) ==
    /\ pc[i] = "select"
    /\ EventLoopGrants(i)
    /\ \E response \in GenerationOutcomes(SelectionTexts) :
        IF response = GenerationFailure
        THEN Raise(i, "SelectionError")
        ELSE IF response.isNone
        THEN Raise(i, "AttributeError")
        ELSE /\ humor_judge_prompt' =
                    [humor_judge_prompt EXCEPT ![i] = HumorJudgePrompt(joke_suggestions[i])]
             /\ humor_judge_response' = [humor_judge_response EXCEPT ![i] = response]
             /\ selected_joke' = [selected_joke EXCEPT ![i] = strip(response.chars)]
             /\ pc' = [pc EXCEPT ![i] = "append_hint"]
             /\ running' = i
             /\ UNCHANGED <<latest_image, latest_user_message, association_prompt,
                            image_bytes, joke_suggestions, outcome, failure>>
    /\ trace' = [trace EXCEPT ![i] = Append(@, "selection")]
    /\ UNCHANGED <<acquisition, ideation_seen, ctx, uttIdx, concurrent>>

\* chat_ctx.messages.append(ChatMessage(role="user", content=f"Use this ..."))
AppendHint(i) ==
    /\ pc[i] = "append_hint"
    /\ EventLoopGrants(i)
    /\ ctx' = AppendMessage(ctx, HintMessage(i, selected_joke[i]))
    /\ pc' = [pc EXCEPT ![i] = "return"]
    /\ running' = i
    /\ trace' = [trace EXCEPT ![i] = Append(@, "hint")]
    /\ UNCHANGED <<acquisition, ideation_seen, locals, outcome, failure, uttIdx, concurrent>>

\* the body of before_llm_cb ends: the hook returns None to its caller
Return(i) ==
    /\ pc[i] = "return"
    /\ EventLoopGrants(i)
    /\ pc' = [pc EXCEPT ![i] = "done"]
    /\ outcome' = [outcome EXCEPT ![i] = "returned"]
    /\ running' = 0
    /\ ClearLocals(i)
    /\ UNCHANGED <<acquisition, ideation_seen, ctx, failure, uttIdx, concurrent, trace>>

\* ----------------------------------------------------------- specification
\* the steps the event loop and the stream's own reader task take
HookStep ==
    \E i \in Invocations :
        \/ GetVideoTrack(i)
        \/ OpenStream(i)
        \/ AcloseDone(i)
        \/ Lookup(i)
        \/ AppendImage(i)
        \/ Encode(i)
        \/ Ideate(i)
        \/ Select(i)
        \/ AppendHint(i)
        \/ Return(i)

Next ==
    \/ \E i \in Invocations, u \in Utterances : UserTurn(i, u)
    \/ \E i \in Invocations : InvokeHook(i)
    \/ \E i \in Invocations : GetVideoTrack(i)
    \/ \E i \in Invocations : OpenStream(i)
    \/ \E i \in Invocations, f \in Frames : FrameEvent(i, f)
    \/ \E i \in Invocations : StreamError(i)
    \/ \E i \in Invocations : StreamEnd(i)
    \/ \E i \in Invocations : CancelWaiting(i)
    \/ \E i \in Invocations : AcloseDone(i)
    \/ \E i \in Invocations : CancelClosing(i)
    \/ \E i \in Invocations : Lookup(i)
    \/ \E i \in Invocations : AppendImage(i)
    \/ \E i \in Invocations : Encode(i)
    \/ \E i \in Invocations : Ideate(i)
    \/ \E i \in Invocations : Select(i)
    \/ \E i \in Invocations : AppendHint(i)
    \/ \E i \in Invocations : Return(i)

Spec == Init /\ [][Next]_vars

\* the event loop runs every task that is ready, and the reader task of a
\* closed stream ends; neither the stream's events nor cancellation are owed
FairSpec == Spec /\ WF_vars(HookStep)

\* ------------------------------------------- deterministic selection stub
\* a selection model that is a function of its prompt: it answers the
\* prompt that lists no suggestions with blanks, and any other prompt with
\* a padded "joke B"
StubSelection(prompt) ==
    IF prompt[Len(prompt)] = "None"
    THEN TextOf(<<" ">>)
    ELSE TextOf(<<" ", "joke B", "\n">>)

\* lines 135-228 with the selection call answered by the stub
SelectStub(i) ==
    /\ pc[i] = "select"
    /\ EventLoopGrants(i)
    /\ LET prompt == HumorJudgePrompt(joke_suggestions[i])
           response == StubSelection(prompt)
       IN  /\ humor_judge_prompt' = [humor_judge_prompt EXCEPT ![i] = prompt]
           /\ humor_judge_response' = [humor_judge_response EXCEPT ![i] = response]
           /\ selected_joke' = [selected_joke EXCEPT ![i] = strip(response.chars)]
    /\ ideation_seen' = [ideation_seen EXCEPT ![i] = joke_suggestions[i]]
    /\ pc' = [pc EXCEPT ![i] = "append_hint"]
    /\ running' = i
    /\ trace' = [trace EXCEPT ![i] = Append(@, "selection")]
    /\ UNCHANGED <<acquisition, ctx, latest_image, latest_user_message,
                   association_prompt, image_bytes, joke_suggestions, outcome,
                   failure, uttIdx, concurrent>>

NextStub ==
    \/ \E i \in Invocations, u \in Utterances : UserTurn(i, u)
    \/ \E i \in Invocations : InvokeHook(i)
    \/ \E i \in Invocations : GetVideoTrack(i)
    \/ \E i \in Invocations : OpenStream(i)
    \/ \E i \in Invocations, f \in Frames : FrameEvent(i, f)
    \/ \E i \in Invocations : StreamError(i)
    \/ \E i \in Invocations : StreamEnd(i)
    \/ \E i \in Invocations : CancelWaiting(i)
    \/ \E i \in Invocations : AcloseDone(i)
    \/ \E i \in Invocations : CancelClosing(i)
    \/ \E i \in Invocations : Lookup(i)
    \/ \E i \in Invocations : AppendImage(i)
    \/ \E i \in Invocations : Encode(i)
    \/ \E i \in Invocations : Ideate(i)
    \/ \E i \in Invocations : SelectStub(i)
    \/ \E i \in Invocations : AppendHint(i)
    \/ \E i \in Invocations : Return(i)

\* the program with the selection model replaced by the stub
StubSpec == Init /\ [][NextStub]_vars

\* ------------------------------------------------------------ properties
Positions == 1..Len(ctx)

ImagesBy(i) == {k \in Positions : ctx[k].by = i /\ ctx[k].kind = "image"}

HintsBy(i) == {k \in Positions : ctx[k].by = i /\ ctx[k].kind = "hint"}

Images == {k \in Positions : ctx[k].kind = "image"}

Hints == {k \in Positions : ctx[k].kind = "hint"}

\* snapshot acquisition ended with no frame and no cancellation
NoFrameCaptured(i) == snap[i] \in {"ValueError", "StreamError", "exhausted"}

GenerationErrors == {"IdeationError", "SelectionError", "AttributeError"}

\* get_latest_image is over for invocation i
SnapshotOver(i) == pc[i] \notin {"idle", "get_video_track", "open_stream",
                                 "await_frame", "aclose"}

\* C1: an invocation whose snapshot acquisition failed or one of whose
\* generation calls failed returns normally to its caller; no exception
\* leaves the hook.  (The invocations that found no user message are C4's.)
C1_HookAlwaysReturns ==
    \A i \in Invocations :
        ( /\ pc[i] = "done"
          /\ failure[i] # "IndexError"
          /\ NoFrameCaptured(i) \/ failure[i] \in GenerationErrors )
        => outcome[i] = "returned"

\* C2: an invocation that is over, on whatever path, has appended at most
\* one image message and exactly one hint message, the image before the hint.
C2_OneImageOneHint ==
    \A i \in Invocations :
        (pc[i] = "done" /\ outcome[i] \in {"returned", "raised"}
                        /\ failure[i] # "IndexError")
        => /\ Cardinality(ImagesBy(i)) <= 1
           /\ Cardinality(HintsBy(i)) = 1
           /\ \A k \in ImagesBy(i), h \in HintsBy(i) : k < h

\* C3: an invocation whose snapshot acquisition yielded no frame, and whose
\* generation calls did not fail, ends having appended its hint message and
\* no image message.
C3_NoFrameStillHints ==
    \A i \in Invocations :
        ( /\ pc[i] = "done"
          /\ NoFrameCaptured(i)
          /\ failure[i] \notin GenerationErrors \cup {"IndexError"} )
        => /\ outcome[i] = "returned"
           /\ Cardinality(HintsBy(i)) = 1
           /\ ImagesBy(i) = {}

\* C4: an invocation on a context with no user-role message appends no hint
\* and does not end in an exception leaving the hook (the context, which
\* only grows, has no user-role message now, so it had none then).
C4_NoUserTurnSignalled ==
    \A i \in Invocations :
        (pc[i] = "done" /\ UserMessages(ctx) = <<>>)
        => outcome[i] # "raised" /\ HintsBy(i) = {}

\* C5: an invocation that waits for the first event of its stream stops
\* waiting, with its stream closed, whether or not an event ever comes.
C5_BoundedWait ==
    \A i \in Invocations :
        (pc[i] = "await_frame") ~> (pc[i] # "await_frame" /\ video_stream[i] = "closed")

\* C6: once get_latest_image is over, by a returned frame, a stream error,
\* an exhausted stream or a cancellation, the stream it opened is not open.
C6_StreamClosedOnExit ==
    \A i \in Invocations : SnapshotOver(i) => video_stream[i] # "open"

C6_Witness ==
    \E i, j \in Invocations :
        /\ outcome[i] = "cancelled" /\ video_stream[i] = "closed"
        /\ pc[j] = "done" /\ snap[j] = "frame" /\ video_stream[j] = "closed"

\* C7: in a room where no remote participant publishes a video track,
\* get_latest_image ends by returning None (the ValueError is caught and
\* does not leave it), opens no stream, and the invocation appends no image.
C7_NoTrackNoImage ==
    \A i \in Invocations :
        (get_video_track(room) = NoVideoTrack /\ pc[i] \notin {"idle", "get_video_track"})
        => /\ snap[i] = "ValueError"
           /\ failure[i] # "ValueError"
           /\ latest_image[i] = NoFrame
           /\ video_stream[i] = "None"
           /\ ImagesBy(i) = {}

C7_Witness ==
    \E i \in Invocations :
        /\ get_video_track(room) = NoVideoTrack
        /\ Len(room) > 0
        /\ pc[i] = "encode"

\* C8: every step leaves the old context a prefix of the new one.
C8_AppendOnly ==
    [][Len(ctx) <= Len(ctx') /\ SubSeq(ctx', 1, Len(ctx)) = ctx]_vars

C8_Witness ==
    \E i \in Invocations : ImagesBy(i) # {} /\ HintsBy(i) # {}

\* C9: the messages an invocation appended are contiguous in the context,
\* also when it overlapped with another invocation.
C9_AppendsContiguous ==
    \A i \in Invocations :
        \A a, c \in Positions :
            (a < c /\ ctx[a].by = i /\ ctx[c].by = i)
            => \A b \in a..c : ctx[b].by = i

C9_Witness ==
    \E i, j \in Invocations :
        /\ j \in concurrent[i]
        /\ ImagesBy(i) # {} /\ HintsBy(i) # {}
        /\ ImagesBy(j) # {} /\ HintsBy(j) # {}

\* C10: when N invocations are over and none is in flight, the context holds
\* at most N image messages and at most N hint messages, and every message
\* an invocation appended lies after the utterance its turn started with.
C10_AtMostNPerTurns ==
    /\ InFlight = {} =>
        LET N == Cardinality({i \in Invocations : pc[i] = "done"})
        IN  Cardinality(Images) <= N /\ Cardinality(Hints) <= N
    /\ \A i \in Invocations :
        uttIdx[i] > 0 =>
            /\ ctx[uttIdx[i]].role = "user" /\ ctx[uttIdx[i]].by = 0
            /\ \A k \in Positions : ctx[k].by = i => k > uttIdx[i]

C10_Witness ==
    /\ InFlight = {}
    /\ \A i \in Invocations : pc[i] = "done" /\ uttIdx[i] > 0 /\ outcome[i] = "returned"
    /\ Cardinality(Images) = MaxInvocations
    /\ Cardinality(Hints) = MaxInvocations

\* the concrete scenario of C11: the utterance and the stubs' outputs
ScenarioUtterance == <<"tell me about your day">>

ScenarioIdeation == TextOf(<<"1. joke A", "\n", "2. joke B">>)

ScenarioSelection == TextOf(<<"joke B">>)

\* invocation i is the only one, has run on [seed, utterance] with a frame
\* and the two stub outputs, and is about to return
InScenario(i) ==
    /\ pc[i] = "return"
    /\ \A j \in Invocations \ {i} : pc[j] = "idle"
    /\ uttIdx[i] = 2
    /\ SubSeq(ctx, 1, 2) = <<SeedMessage, UserUtterance(ScenarioUtterance)>>
    /\ snap[i] = "frame"
    /\ latest_image[i] \in Frames
    /\ joke_suggestions[i] = ScenarioIdeation
    /\ humor_judge_response[i] = ScenarioSelection

\* the final context of the scenario, with the hint's wrapper text w
ScenarioContext(i, w) ==
    <<SeedMessage,
      UserUtterance(ScenarioUtterance),
      ChatMessage("user", "image", <<>>, latest_image[i], i),
      ChatMessage("user", "hint", <<w, "joke B">>, NoFrame, i)>>

IsTrimOf(t, s) ==
    \E a, b \in 0..Len(s) :
        /\ a + b <= Len(s)
        /\ t = SubSeq(s, a + 1, Len(s) - b)
        /\ \A k \in 1..a : s[k] \in Whitespace
        /\ \A k \in (Len(s) - b + 1)..Len(s) : s[k] \in Whitespace
        /\ t # <<>> => (t[1] \notin Whitespace /\ t[Len(t)] \notin Whitespace)

\* C12: with the deterministic selection stub, two invocations whose
\* selection call was given the same ideation text appended hints of the
\* same content, and the hint an invocation has just appended is the wrapper
\* text followed by the selection output without its surrounding whitespace.
C12_HintFunctionOfIdeation ==
    /\ \A i, j \in Invocations :
        (ideation_seen[i] # NotSeen /\ ideation_seen[i] = ideation_seen[j])
        => \A h \in HintsBy(i), k \in HintsBy(j) : ctx[h].text = ctx[k].text
    /\ \A i \in Invocations :
        pc[i] = "return" =>
            LET m == ctx[Len(ctx)]
            IN  /\ m.by = i /\ m.kind = "hint" /\ m.role = "user"
                /\ m.text # <<>>
                /\ m.text[1] = "Use this joke as inspiration for your response: "
                /\ IsTrimOf(Tail(m.text), humor_judge_response[i].chars)

C12_Witness ==
    \E i, j \in Invocations :
        /\ i # j
        /\ ideation_seen[i] # NotSeen /\ ideation_seen[i] = ideation_seen[j]
        /\ HintsBy(i) # {} /\ pc[j] = "return"
        /\ Len(humor_judge_response[j].chars) > Len(selected_joke[j])

\* ------------------------------------------ get_video_track on larger rooms
\* the rooms get_video_track is applied to
ScanRooms == RoomsUpTo(MaxScanRoomSize)

ScanInit == room \in ScanRooms /\ HookInit

\* the hook is called and get_video_track(ctx.room) runs
NextScan == \E i \in Invocations : InvokeHook(i) \/ GetVideoTrack(i)

ScanSpec == ScanInit /\ [][NextScan]_vars

\* the publications of the room that carry a remote video track
VideoPublications ==
    {pt \in (1..Len(room)) \X (1..MaxScanRoomSize) :
        pt[2] <= Len(room[pt[1]]) /\ room[pt[1]][pt[2]] = "video"}

\* pt comes before qt in the order the code visits the publications
VisitedBefore(pt, qt) == pt[1] < qt[1] \/ (pt[1] = qt[1] /\ pt[2] < qt[2])

\* get_video_track has run for invocation i
Scanned(i) == pc[i] \notin {"idle", "get_video_track"}

\* C16: get_video_track returns the track of the first publication, in the
\* order participants and then their publications are visited, that carries
\* a remote video track; it raises its no-video-track error exactly when
\* the room has no such publication; and it leaves the room as it was.
C16_FirstVideoTrack ==
    /\ [](\A i \in Invocations :
            Scanned(i) =>
                /\ snap[i] = "ValueError" <=> VideoPublications = {}
                /\ snap[i] # "ValueError" =>
                    /\ video_track[i] \in VideoPublications
                    /\ \A qt \in VideoPublications :
                           qt = video_track[i] \/ VisitedBefore(video_track[i], qt))
    /\ [][room' = room]_vars

C16_Witness ==
    \E i \in Invocations :
        /\ Scanned(i)
        /\ Cardinality(VideoPublications) >= 2
        /\ video_track[i] = <<2, 1>>
        /\ room[1] # <<>>
        /\ room[1][1] = "audio"

\* C13: an invocation one of whose generation calls failed, or whose
\* selection call returned an empty or whitespace-only text, returns to its
\* caller and has appended no hint message.
C13_DegradeWithoutHint ==
    \A i \in Invocations :
        /\ (pc[i] = "done" /\ failure[i] \in GenerationErrors)
           => (outcome[i] = "returned" /\ HintsBy(i) = {})
        /\ ( /\ pc[i] = "return"
             /\ \A k \in 1..Len(humor_judge_response[i].chars) :
                    humor_judge_response[i].chars[k] \in Whitespace )
           => HintsBy(i) = {}

\* the steps of one invocation, in the order of the code
StepOrder == <<"snapshot", "ideation", "selection", "hint">>

\* the invocation is past its selection call
PastSelection(i) == pc[i] \in {"append_hint", "return"}

\* C14: the steps an invocation has taken are an initial part of snapshot,
\* ideation call, selection call, hint append, each at most once; the
\* snapshot is over when the ideation call is made; and the selection call's
\* prompt carries the ideation text of the same invocation.
C14_StepsInOrder ==
    \A i \in Invocations :
        /\ Len(trace[i]) <= Len(StepOrder)
        /\ trace[i] = SubSeq(StepOrder, 1, Len(trace[i]))
        /\ Len(trace[i]) >= 2 => (SnapshotOver(i) /\ video_stream[i] # "open")
        /\ PastSelection(i) =>
            /\ humor_judge_prompt[i] # <<>>
            /\ ~joke_suggestions[i].isNone =>
                   Tail(humor_judge_prompt[i]) = joke_suggestions[i].chars

C14_Witness ==
    \E i \in Invocations :
        /\ pc[i] = "return"
        /\ trace[i] = StepOrder
        /\ ~joke_suggestions[i].isNone

\* the invocation is past the lookup and the image append
PastImageAppend(i) == pc[i] \in {"encode", "ideate", "select", "append_hint", "return"}

\* the context without the messages invocation i appended
ContextBefore(i) == SelectSeq(ctx, LAMBDA m : m.by # i)

\* C15: the message whose content the ideation prompt carries is the last
\* user-role message of the context as it was before the invocation's image
\* append, and is not the invocation's own image message.
C15_LatestUserMessage ==
    \A i \in Invocations :
        PastImageAppend(i) =>
            LET before == SelectSeq(ContextBefore(i), LAMBDA m : m.role = "user")
            IN  /\ before # <<>>
                /\ latest_user_message[i] = before[Len(before)]
                /\ latest_user_message[i].by # i
                /\ Tail(association_prompt[i]) = ContentStr(before[Len(before)])

C15_Witness ==
    \E i \in Invocations :
        /\ PastImageAppend(i)
        /\ ImagesBy(i) # {}
        /\ ctx[Len(ctx)].by = i

\* C17: every hint message of the context stands directly after an image
\* message appended by the same invocation, and an invocation that has
\* appended a hint captured a frame.
C17_HintFollowsOwnImage ==
    /\ \A h \in Hints :
        /\ h > 1
        /\ ctx[h - 1].kind = "image"
        /\ ctx[h - 1].by = ctx[h].by
    /\ \A i \in Invocations : HintsBy(i) # {} => snap[i] = "frame"

C17_Witness ==
    /\ Hints # {}
    /\ \E i \in Invocations :
        /\ pc[i] = "done"
        /\ NoFrameCaptured(i)
        /\ failure[i] = "EncodeError"

\* the messages invocation i appended
MessagesBy(i) == {k \in Positions : ctx[k].by = i}

\* the invocation ended in a failure
Failed(i) == outcome[i] \in {"raised", "cancelled"}

\* C18: an invocation that ended in a failure has appended at most one image
\* message and no hint message; if an ideation or selection call failed, its
\* one image message is in the context and no hint follows it; if the lookup
\* failed, it has appended nothing.
C18_FailureLeavesAtMostImage ==
    \A i \in Invocations :
        Failed(i) =>
            /\ HintsBy(i) = {}
            /\ MessagesBy(i) = ImagesBy(i)
            /\ Cardinality(ImagesBy(i)) <= 1
            /\ failure[i] \in GenerationErrors =>
                /\ Cardinality(ImagesBy(i)) = 1
                /\ \A k \in ImagesBy(i) : k = Len(ctx) \/ ctx[k + 1].kind # "hint"
            /\ failure[i] = "IndexError" => MessagesBy(i) = {}

C18_Witness ==
    \E i, j \in Invocations :
        /\ Failed(i) /\ failure[i] = "IndexError"
        /\ Failed(j) /\ failure[j] \in GenerationErrors
        /\ ImagesBy(j) # {}

\* the turns so far came one after the other: no invocation began while
\* another one was in flight
Sequential == \A j \in Invocations : concurrent[j] = {}

====
